---- MODULE Spec2Model ----
(***************************************************************************)
(* Model of the two command-line tools scripts/gcal.py and scripts/gmail.py *)
(* of tele-claude-bot: the credential handling of get_service (read the     *)
(* token file, refresh when expired, write the token back), the dispatch of *)
(* the subcommands, the date parsing of create_event and the body           *)
(* extraction of read_email.                                                *)
(*                                                                          *)
(* Conventions.  A Python str is a sequence: a date argument is the         *)
(* sequence of its numeric fields (<<2024, 1, 10>> is "2024-01-10",         *)
(* <<2024, 1, 10, 9, 0>> is "2024-01-10 09:00", <<>> is ""), a text is the  *)
(* sequence of its code points, base64 data is the sequence of its 6-bit    *)
(* digits.  None and missing dictionary keys are explicit flags or the      *)
(* string "None".  creds.expired and the answers of the servers are inputs  *)
(* of the environment.                                                      *)
(***************************************************************************)
EXTENDS Integers, Sequences, FiniteSets, TLC

VARIABLES
    tokenFile,   \* tool -> content of TOKEN_PATH (NoFile when absent)
    stored,      \* tool -> the content the external OAuth setup stored
    issued,      \* number of access tokens the token endpoint has issued
    started,     \* number of invocations started so far
    inv          \* process -> the running (or last) invocation

vars == <<tokenFile, stored, issued, started, inv>>

(* ------------------------------ bounds --------------------------------- *)

\* invocations in one behaviour
MaxInv == 2
\* messages a list/search call returns
MaxResults == 1

Procs == {"p1", "p2"}
Tools == {"gcal", "gmail"}

(* --------------------------- the token file ---------------------------- *)

NoFile == [absent |-> TRUE]

TokenRecord(tok, rt) ==
    [token |-> tok, refresh_token |-> rt, token_uri |-> "uri",
     client_id |-> "id", client_secret |-> "secret"]

\* what the OAuth setup may have left behind: nothing, a record with a
\* refresh token, a record without one
StoredFiles == {NoFile, TokenRecord(0, "rt"), TokenRecord(0, "None")}

\* gcal.py 35-41: Credentials(token=token_data.get("token"), ...)
Credentials(token_data) ==
    [token |-> token_data.token,
     refresh_token |-> token_data.refresh_token,
     token_uri |-> token_data.token_uri,
     client_id |-> token_data.client_id,
     client_secret |-> token_data.client_secret]

NoCreds == [absent |-> TRUE]

\* gcal.py 44: creds.expired and creds.refresh_token
NeedsRefresh_ignoreExpiry(i) == i.creds.refresh_token # "None"

NeedsRefresh(i) == i.expired /\ i.creds.refresh_token # "None"

\* gcal.py 46: token_data["token"] = creds.token
UpdatedTokenData_fromCreds(token_data, creds) ==
    [token |-> creds.token, refresh_token |-> "None",
     token_uri |-> token_data.token_uri,
     client_id |-> token_data.client_id,
     client_secret |-> token_data.client_secret]

UpdatedTokenData_noSecret(token_data, creds) ==
    [token_data EXCEPT !.token = creds.token, !.client_secret = "None"]

UpdatedTokenData(token_data, creds) ==
    [token_data EXCEPT !.token = creds.token]

(* ------------------------ create_event: dates -------------------------- *)

\* gcal.py 25: LOCAL_TZ = ZoneInfo("Asia/Singapore"), UTC+08:00, in minutes
UtcOffsetMinutes == 480

\* the start/end arguments tried: "", "2024-01-10", "2024-01-12",
\* "2024-13-01", "2024-01-10 09", "2024-01-10 09:00", "2024-01-10 09:30",
\* "2024-13-01 09:00", "2024-02-30 09:00", "2024-01-10 24:00",
\* "2023-02-29 09:00"
DateStrings ==
    {<<>>, <<2024, 1, 10>>, <<2024, 1, 12>>, <<2024, 13, 1>>,
     <<2024, 1, 10, 9>>, <<2024, 1, 10, 9, 0>>, <<2024, 1, 10, 9, 30>>,
     <<2024, 13, 1, 9, 0>>, <<2024, 2, 30, 9, 0>>, <<2024, 1, 10, 24, 0>>,
     <<2023, 2, 29, 9, 0>>}

\* gcal.py 167: " " in start
HasSpace(s) == Len(s) > 3

IsLeap(y) == (y % 4 = 0 /\ y % 100 # 0) \/ y % 400 = 0

DaysInMonth(y, m) ==
    IF m = 2 THEN (IF IsLeap(y) THEN 29 ELSE 28)
    ELSE IF m \in {4, 6, 9, 11} THEN 30 ELSE 31

\* gcal.py 168: datetime.strptime(s, "%Y-%m-%d %H:%M") raises ValueError
\* unless s has the five fields and they form a date and a time
StrptimeOk(s) ==
    /\ Len(s) = 5
    /\ s[1] \in 1..9999
    /\ s[2] \in 1..12
    /\ s[3] \in 1..DaysInMonth(s[1], s[2])
    /\ s[4] \in 0..23
    /\ s[5] \in 0..59

\* gcal.py 168: strptime(...).replace(tzinfo=LOCAL_TZ)
Strptime(s) ==
    [year |-> s[1], month |-> s[2], day |-> s[3], hour |-> s[4],
     minute |-> s[5], second |-> 0, utcoffset |-> UtcOffsetMinutes]

\* gcal.py 172: dt.isoformat(), "YYYY-MM-DDTHH:MM:SS+HH:MM" as its fields
IsoFormat(dt) ==
    <<dt.year, dt.month, dt.day, dt.hour, dt.minute, dt.second,
      dt.utcoffset \div 60, dt.utcoffset % 60>>

\* gcal.py 186-187: if description: event["description"] = description
WithDescription(event, description) ==
    IF description # "" THEN event @@ [description |-> description]
    ELSE event

\* gcal.py 166-187: the event payload, or the ValueError of strptime
BuildEvent(title, start, end, description) ==
    IF HasSpace(start)
    THEN IF StrptimeOk(start) /\ StrptimeOk(end)
         THEN [error |-> FALSE,
               event |-> WithDescription(
                   [summary |-> title,
                    start |-> [dateTime |-> IsoFormat(Strptime(start))],
                    end |-> [dateTime |-> IsoFormat(Strptime(end))]],
                   description)]
         ELSE [error |-> TRUE]
    ELSE [error |-> FALSE,
          event |-> WithDescription(
              [summary |-> title, start |-> [date |-> start],
               end |-> [date |-> end]],
              description)]

(* ----------------------- read_email: the body -------------------------- *)

\* "No body content"
NoBodyContent ==
    <<78, 111, 32, 98, 111, 100, 121, 32, 99, 111, 110, 116, 101, 110, 116>>

\* base64 data tried: "QQ==" (A), "SGk=" (Hi), "w6k=" (e acute), "/w==" (the
\* byte 255, which is not UTF-8)
DataA == <<16, 16>>
DataHi == <<18, 6, 36>>
DataEacute == <<48, 58, 36>>
DataNotUtf8 == <<63, 48>>

PartSamples ==
    {[mimeType |-> "text/plain", data |-> <<>>],
     [mimeType |-> "text/plain", data |-> DataHi],
     [mimeType |-> "text/plain", data |-> DataEacute],
     [mimeType |-> "text/html", data |-> DataA]}

PartLists ==
    {<<>>} \cup {<<a>> : a \in PartSamples}
           \cup {<<a, b>> : a \in PartSamples, b \in PartSamples}

\* the messages the get call may answer with: a payload with or without a
\* "body", with or without "parts", a message with or without a "snippet"
Messages ==
    {m \in [hasBody : BOOLEAN, data : {<<>>, DataA, DataNotUtf8},
            hasParts : BOOLEAN, parts : PartLists, hasSnippet : BOOLEAN,
            snippet : {<<>>, <<104, 105>>}] :
        /\ ~m.hasBody => m.data = <<>>
        /\ ~m.hasParts => m.parts = <<>>
        /\ ~m.hasSnippet => m.snippet = <<>>}

\* base64.urlsafe_b64decode: 4 digits give 3 bytes, a last group of 2 or 3
\* digits gives 1 or 2 bytes, a last group of 1 digit is an error
RECURSIVE B64Bytes(_)
B64Bytes(d) ==
    IF Len(d) < 2 THEN <<>>
    ELSE IF Len(d) = 2 THEN <<d[1] * 4 + d[2] \div 16>>
    ELSE IF Len(d) = 3
         THEN <<d[1] * 4 + d[2] \div 16, (d[2] % 16) * 16 + d[3] \div 4>>
    ELSE <<d[1] * 4 + d[2] \div 16, (d[2] % 16) * 16 + d[3] \div 4,
           (d[3] % 4) * 64 + d[4]>> \o B64Bytes(SubSeq(d, 5, Len(d)))

B64Ok(d) == Len(d) % 4 # 1

IsCont(b) == b \in 128..191

\* bytes.decode("utf-8"): the length of the sequence a lead byte starts, 0
\* when the bytes at the head are not UTF-8
Utf8Len(b) ==
    IF b[1] < 128 THEN 1
    ELSE IF b[1] \in 194..223 /\ Len(b) >= 2 /\ IsCont(b[2]) THEN 2
    ELSE IF /\ b[1] \in 224..239 /\ Len(b) >= 3 /\ IsCont(b[2]) /\ IsCont(b[3])
            /\ (b[1] = 224 => b[2] >= 160) /\ (b[1] = 237 => b[2] < 160)
         THEN 3
    ELSE IF /\ b[1] \in 240..244 /\ Len(b) >= 4
            /\ IsCont(b[2]) /\ IsCont(b[3]) /\ IsCont(b[4])
            /\ (b[1] = 240 => b[2] >= 144) /\ (b[1] = 244 => b[2] < 144)
         THEN 4
    ELSE 0

CodePoint(b, n) ==
    IF n = 1 THEN b[1]
    ELSE IF n = 2 THEN (b[1] - 192) * 64 + (b[2] - 128)
    ELSE IF n = 3
         THEN (b[1] - 224) * 4096 + (b[2] - 128) * 64 + (b[3] - 128)
    ELSE (b[1] - 240) * 262144 + (b[2] - 128) * 4096
         + (b[3] - 128) * 64 + (b[4] - 128)

RECURSIVE Utf8Ok(_)
Utf8Ok(b) ==
    \/ b = <<>>
    \/ Utf8Len(b) > 0 /\ Utf8Ok(SubSeq(b, Utf8Len(b) + 1, Len(b)))

RECURSIVE Utf8Text(_)
Utf8Text(b) ==
    IF b = <<>> \/ Utf8Len(b) = 0 THEN <<>>
    ELSE <<CodePoint(b, Utf8Len(b))>>
         \o Utf8Text(SubSeq(b, Utf8Len(b) + 1, Len(b)))

\* gmail.py 113, 117: base64.urlsafe_b64decode(data).decode("utf-8")
DecodeOk(d) == B64Ok(d) /\ Utf8Ok(B64Bytes(d))
Decode(d) == Utf8Text(B64Bytes(d))

\* gmail.py 115-118: the first text/plain part that has data, 0 when none
RECURSIVE FirstPlainFrom(_, _)
FirstPlainFrom(parts, k) ==
    IF k > Len(parts) THEN 0
    ELSE IF parts[k].mimeType = "text/plain" /\ parts[k].data # <<>> THEN k
    ELSE FirstPlainFrom(parts, k + 1)

RECURSIVE LastPlainFrom(_, _)
LastPlainFrom(parts, k) ==
    IF k < 1 THEN 0
    ELSE IF parts[k].mimeType = "text/plain" /\ parts[k].data # <<>> THEN k
    ELSE LastPlainFrom(parts, k - 1)

FirstPlain_last(parts) == LastPlainFrom(parts, Len(parts))

FirstPlain(parts) == FirstPlainFrom(parts, 1)

\* gmail.py 112-118: the base64 data the body is decoded from, <<>> when
\* neither branch assigns body
BodyData(msg) ==
    IF msg.hasBody /\ msg.data # <<>> THEN msg.data
    ELSE IF msg.hasParts /\ FirstPlain(msg.parts) # 0
         THEN msg.parts[FirstPlain(msg.parts)].data
    ELSE <<>>

\* gmail.py 120: body or msg.get("snippet", "No body content")
Printed(body, msg) ==
    IF body # <<>> THEN body
    ELSE IF msg.hasSnippet THEN msg.snippet
    ELSE NoBodyContent

\* gmail.py 108-120: what read_email prints, or the error of the decoding
ExtractBody(msg) ==
    IF DecodeOk(BodyData(msg))
    THEN [error |-> FALSE, text |-> Printed(Decode(BodyData(msg)), msg)]
    ELSE [error |-> TRUE]

(* --------------------------- invocations ------------------------------- *)

GcalCommands == {"today", "week", "upcoming", "create", "list-calendars"}
GmailCommands == {"list", "read", "send", "search"}
Commands(t) == IF t = "gcal" THEN GcalCommands ELSE GmailCommands

NoTokenData == [absent |-> TRUE]
NotSubmitted == [sent |-> FALSE]
NoMessage == [fetched |-> FALSE]
NoDisplay == [shown |-> FALSE]

\* a process at its start: nothing loaded, nothing called, still running
\* (exitCode -1), nothing on stderr
Fresh(t, c, s, e, d) ==
    [pc |-> "get_service", tool |-> t, command |-> c,
     start |-> s, end |-> e, description |-> d,
     token_data |-> NoTokenData, creds |-> NoCreds, expired |-> FALSE,
     refresh |-> "none", refreshCalls |-> 0, writes |-> 0, apiCalls |-> 0,
     exitCode |-> -1, stderr |-> "", submitted |-> NotSubmitted,
     msg |-> NoMessage, display |-> NoDisplay]

Idle == [Fresh("gcal", "today", <<>>, <<>>, "") EXCEPT !.pc = "idle"]

\* the inputs of the sequential specification and of the two-process one
Inputs == [dates |-> DateStrings, descs |-> {"", "d"}, msgs |-> Messages]

RaceInputs ==
    [dates |-> {<<2024, 1, 10, 9, 0>>, <<2024, 13, 1>>}, descs |-> {""},
     msgs |-> {m \in Messages : m.parts = <<>> /\ m.data # DataNotUtf8
                                /\ m.hasSnippet /\ m.hasBody}]

Exit(i, code, message) ==
    [i EXCEPT !.pc = "exit", !.exitCode = code, !.stderr = message]

\* main: a new process runs one subcommand (gcal.py 210-245, gmail.py
\* 176-209); every subcommand begins with get_service()
Start(p, In) ==
    /\ inv[p].pc \in {"idle", "exit"}
    /\ started < MaxInv
    /\ started' = started + 1
    /\ \E t \in Tools : \E c \in Commands(t) :
          IF c = "create"
          THEN \E s \in In.dates, e \in In.dates, d \in In.descs :
                  inv' = [inv EXCEPT ![p] = Fresh(t, c, s, e, d)]
          ELSE inv' = [inv EXCEPT ![p] = Fresh(t, c, <<>>, <<>>, "")]
    /\ UNCHANGED <<tokenFile, stored, issued>>

\* get_service, gcal.py 30-32 (gmail.py 28-30): no token file
GetServiceNoToken_goesOn(p) ==
    /\ inv[p].pc = "get_service"
    /\ tokenFile[inv[p].tool] = NoFile
    /\ inv' = [inv EXCEPT ![p] = [@ EXCEPT !.pc = "service",
                                           !.stderr = "NotAuthenticated"]]
    /\ UNCHANGED <<tokenFile, stored, issued, started>>

GetServiceNoToken(p) ==
    /\ inv[p].pc = "get_service"
    /\ tokenFile[inv[p].tool] = NoFile
    /\ inv' = [inv EXCEPT ![p] = Exit(@, 1, "NotAuthenticated")]
    /\ UNCHANGED <<tokenFile, stored, issued, started>>

\* get_service, gcal.py 34-41 (gmail.py 32-39): read the file, build the
\* credentials; whether they are expired is the library's answer
GetServiceLoad(p) ==
    /\ inv[p].pc = "get_service"
    /\ tokenFile[inv[p].tool] # NoFile
    /\ \E x \in BOOLEAN :
          inv' = [inv EXCEPT ![p] =
                    [@ EXCEPT !.pc = "creds",
                              !.token_data = tokenFile[inv[p].tool],
                              !.creds = Credentials(tokenFile[inv[p].tool]),
                              !.expired = x]]
    /\ UNCHANGED <<tokenFile, stored, issued, started>>

\* get_service, gcal.py 44 and 49: nothing to refresh, build the service
SkipRefresh_writes(p) ==
    /\ inv[p].pc = "creds"
    /\ ~NeedsRefresh(inv[p])
    /\ tokenFile' = [tokenFile EXCEPT ![inv[p].tool] =
                        UpdatedTokenData(inv[p].token_data, inv[p].creds)]
    /\ inv' = [inv EXCEPT ![p] = [@ EXCEPT !.pc = "service",
                                           !.writes = @ + 1]]
    /\ UNCHANGED <<stored, issued, started>>

SkipRefresh(p) ==
    /\ inv[p].pc = "creds"
    /\ ~NeedsRefresh(inv[p])
    /\ inv' = [inv EXCEPT ![p] = [@ EXCEPT !.pc = "service"]]
    /\ UNCHANGED <<tokenFile, stored, issued, started>>

\* get_service, gcal.py 45: creds.refresh(Request()) answered with a new
\* access token
RefreshOk(p) ==
    /\ inv[p].pc = "creds"
    /\ NeedsRefresh(inv[p])
    /\ issued' = issued + 1
    /\ inv' = [inv EXCEPT ![p] =
                 [@ EXCEPT !.pc = "refreshed", !.refresh = "ok",
                           !.refreshCalls = @ + 1,
                           !.creds = [@ EXCEPT !.token = issued + 1]]]
    /\ UNCHANGED <<tokenFile, stored, started>>

\* get_service, gcal.py 45: the token endpoint rejects the refresh token;
\* creds.refresh raises, nothing catches it, the interpreter exits with 1
RefreshRejected_swallowed(p) ==
    /\ inv[p].pc = "creds"
    /\ NeedsRefresh(inv[p])
    /\ inv' = [inv EXCEPT ![p] =
                 [@ EXCEPT !.pc = "service", !.refresh = "rejected",
                           !.refreshCalls = @ + 1]]
    /\ UNCHANGED <<tokenFile, stored, issued, started>>

RefreshRejected(p) ==
    /\ inv[p].pc = "creds"
    /\ NeedsRefresh(inv[p])
    /\ inv' = [inv EXCEPT ![p] =
                 [Exit(@, 1, "RefreshError") EXCEPT
                     !.refresh = "rejected", !.refreshCalls = @ + 1]]
    /\ UNCHANGED <<tokenFile, stored, issued, started>>

\* get_service, gcal.py 46-49: store the new access token in token_data,
\* write token_data to the file, build the service
SaveToken(p) ==
    /\ inv[p].pc = "refreshed"
    /\ tokenFile' = [tokenFile EXCEPT ![inv[p].tool] =
                        UpdatedTokenData(inv[p].token_data, inv[p].creds)]
    /\ inv' = [inv EXCEPT ![p] =
                 [@ EXCEPT !.pc = "service", !.writes = @ + 1,
                           !.token_data =
                               UpdatedTokenData(inv[p].token_data,
                                                inv[p].creds)]]
    /\ UNCHANGED <<stored, issued, started>>

(* ----------------------------- commands -------------------------------- *)

\* service...execute(): `calls` requests were sent; the last one was
\* answered (exit 0 at the end of the command) or failed (the HttpError is
\* not caught, the interpreter exits with 1)
AfterCalls(i, calls, ok) ==
    IF ok THEN Exit([i EXCEPT !.apiCalls = @ + calls], 0, i.stderr)
    ELSE Exit([i EXCEPT !.apiCalls = @ + calls], 1, "ProviderError")

\* show_today, show_week, show_upcoming through get_events, gcal.py 73-85
GetEvents(p) ==
    /\ inv[p].pc = "service"
    /\ inv[p].command \in {"today", "week", "upcoming"}
    /\ \E ok \in BOOLEAN : inv' = [inv EXCEPT ![p] = AfterCalls(@, 1, ok)]
    /\ UNCHANGED <<tokenFile, stored, issued, started>>

\* list_calendars, gcal.py 194-207
ListCalendars(p) ==
    /\ inv[p].pc = "service"
    /\ inv[p].command = "list-calendars"
    /\ \E ok \in BOOLEAN : inv' = [inv EXCEPT ![p] = AfterCalls(@, 1, ok)]
    /\ UNCHANGED <<tokenFile, stored, issued, started>>

\* create_event, gcal.py 165-184: strptime raises ValueError, exit 1
CreateEventDateError(p) ==
    /\ inv[p].pc = "service"
    /\ inv[p].command = "create"
    /\ BuildEvent("title", inv[p].start, inv[p].end,
                  inv[p].description).error
    /\ inv' = [inv EXCEPT ![p] = Exit(@, 1, "DateParseError")]
    /\ UNCHANGED <<tokenFile, stored, issued, started>>

\* create_event, gcal.py 165-191: the event is built and inserted
CreateEventInsert(p) ==
    /\ inv[p].pc = "service"
    /\ inv[p].command = "create"
    /\ ~BuildEvent("title", inv[p].start, inv[p].end,
                   inv[p].description).error
    /\ \E ok \in BOOLEAN :
          inv' = [inv EXCEPT ![p] =
                    AfterCalls(
                        [@ EXCEPT !.submitted =
                            [sent |-> TRUE,
                             body |-> BuildEvent("title", inv[p].start,
                                                 inv[p].end,
                                                 inv[p].description).event]],
                        1, ok)]
    /\ UNCHANGED <<tokenFile, stored, issued, started>>

\* list_emails, gmail.py 50-86: one list call, then one get call for each
\* of the n messages listed; failAt is the call that fails, 0 when none
ListEmails(p) ==
    /\ inv[p].pc = "service"
    /\ inv[p].command = "list"
    /\ \E n \in 0..MaxResults : \E failAt \in 0..(n + 1) :
          inv' = [inv EXCEPT ![p] =
                    IF failAt = 0 THEN AfterCalls(@, n + 1, TRUE)
                    ELSE AfterCalls(@, failAt, FALSE)]
    /\ UNCHANGED <<tokenFile, stored, issued, started>>

\* search_emails, gmail.py 141-173
SearchEmails(p) ==
    /\ inv[p].pc = "service"
    /\ inv[p].command = "search"
    /\ \E n \in 0..MaxResults : \E failAt \in 0..(n + 1) :
          inv' = [inv EXCEPT ![p] =
                    IF failAt = 0 THEN AfterCalls(@, n + 1, TRUE)
                    ELSE AfterCalls(@, failAt, FALSE)]
    /\ UNCHANGED <<tokenFile, stored, issued, started>>

\* send_email, gmail.py 123-138
SendEmail(p) ==
    /\ inv[p].pc = "service"
    /\ inv[p].command = "send"
    /\ \E ok \in BOOLEAN : inv' = [inv EXCEPT ![p] = AfterCalls(@, 1, ok)]
    /\ UNCHANGED <<tokenFile, stored, issued, started>>

\* read_email, gmail.py 89-97: the get call fails
ReadEmailFails(p) ==
    /\ inv[p].pc = "service"
    /\ inv[p].command = "read"
    /\ inv' = [inv EXCEPT ![p] = AfterCalls(@, 1, FALSE)]
    /\ UNCHANGED <<tokenFile, stored, issued, started>>

\* read_email, gmail.py 89-120: the get call answers with a message, the
\* body is printed; a body that cannot be decoded raises, exit 1
ReadEmail(p, In) ==
    /\ inv[p].pc = "service"
    /\ inv[p].command = "read"
    /\ \E m \in In.msgs :
          inv' = [inv EXCEPT ![p] =
                    IF ExtractBody(m).error
                    THEN Exit([@ EXCEPT !.apiCalls = @ + 1,
                                        !.msg = [fetched |-> TRUE,
                                                 message |-> m]],
                              1, "DecodeError")
                    ELSE Exit([@ EXCEPT !.apiCalls = @ + 1,
                                        !.msg = [fetched |-> TRUE,
                                                 message |-> m],
                                        !.display =
                                            [shown |-> TRUE,
                                             text |-> ExtractBody(m).text]],
                              0, inv[p].stderr)]
    /\ UNCHANGED <<tokenFile, stored, issued, started>>

(* -------------------------- specifications ----------------------------- *)

Init ==
    /\ tokenFile \in [Tools -> StoredFiles]
    /\ stored = tokenFile
    /\ issued = 0
    /\ started = 0
    /\ inv = [p \in Procs |-> Idle]

Step(p, In) ==
    \/ Start(p, In)
    \/ GetServiceNoToken(p)
    \/ GetServiceLoad(p)
    \/ SkipRefresh(p)
    \/ RefreshOk(p)
    \/ RefreshRejected(p)
    \/ SaveToken(p)
    \/ GetEvents(p)
    \/ ListCalendars(p)
    \/ CreateEventDateError(p)
    \/ CreateEventInsert(p)
    \/ ListEmails(p)
    \/ SearchEmails(p)
    \/ SendEmail(p)
    \/ ReadEmailFails(p)
    \/ ReadEmail(p, In)

\* one invocation after another
Next == Step("p1", Inputs)

Spec == Init /\ [][Next]_vars

\* invocations of two processes, interleaved step by step
NextRace == \E p \in Procs : Step(p, RaceInputs)

SpecRace == Init /\ [][NextRace]_vars

(* ------------------------------ claims --------------------------------- *)

IsCalendarDate(y, m, d) ==
    /\ y \in 1..9999
    /\ m \in 1..12
    /\ d >= 1
    /\ d <= (IF m = 2 THEN (IF IsLeap(y) THEN 29 ELSE 28)
             ELSE IF m \in {4, 6, 9, 11} THEN 30 ELSE 31)

\* a valid "YYYY-MM-DD"
IsDateString(s) == Len(s) = 3 /\ IsCalendarDate(s[1], s[2], s[3])

\* a valid "YYYY-MM-DD HH:MM"
IsDateTimeString(s) ==
    /\ Len(s) = 5
    /\ IsCalendarDate(s[1], s[2], s[3])
    /\ s[4] \in 0..23
    /\ s[5] \in 0..59

Malformed(s) == ~IsDateString(s) /\ ~IsDateTimeString(s)

\* the wall-clock time of a "YYYY-MM-DD HH:MM" in the configured zone
WallClock(s) == <<s[1], s[2], s[3], s[4], s[5], 0, 8, 0>>

\* the invocation has read the token file
Loaded(i) == i.pc # "idle" /\ i.token_data # NoTokenData

\* get_service is over: it returned the service or the process has ended
GetServiceOver(i) == i.pc \in {"service", "exit"}

\* C1: a create whose start or end is malformed exits with status 1 and
\* performs no network call, neither a token refresh nor the insert.
C1_MalformedDateNoNetwork ==
    \A p \in Procs :
        (/\ inv[p].pc # "idle"
         /\ inv[p].command = "create"
         /\ Malformed(inv[p].start) \/ Malformed(inv[p].end))
        => /\ inv[p].refreshCalls = 0
           /\ inv[p].apiCalls = 0
           /\ inv[p].pc = "exit" => inv[p].exitCode = 1

\* C2: with an expired access token and a refresh token that is accepted,
\* get_service performs exactly one refresh call, and the token file then
\* holds the refresh_token that was read from it.
C2_OneRefreshKeepsRefreshToken ==
    \A p \in Procs :
        (/\ Loaded(inv[p])
         /\ GetServiceOver(inv[p])
         /\ inv[p].expired
         /\ inv[p].creds.refresh_token # "None"
         /\ inv[p].refresh # "rejected")
        => /\ inv[p].refreshCalls = 1
           /\ tokenFile[inv[p].tool] # NoFile
           /\ tokenFile[inv[p].tool].refresh_token
                  = inv[p].creds.refresh_token

C2_Witness ==
    \E p \in Procs :
        /\ inv[p].pc = "exit"
        /\ inv[p].exitCode = 0
        /\ inv[p].expired
        /\ inv[p].refresh = "ok"
        /\ inv[p].refreshCalls = 1
        /\ inv[p].writes = 1
        /\ tokenFile[inv[p].tool].token = inv[p].creds.token
        /\ tokenFile[inv[p].tool].token # stored[inv[p].tool].token
        /\ tokenFile[inv[p].tool].refresh_token = "rt"

\* C3: an invocation writes the token file at most once, and only after a
\* refresh call of that invocation has succeeded: in no state has an
\* invocation written without its own successful refresh before.
C3_WriteOnlyAfterRefresh ==
    \A p \in Procs :
        /\ inv[p].writes <= 1
        /\ inv[p].writes = 1
              => inv[p].refresh = "ok" /\ inv[p].refreshCalls = 1
        /\ inv[p].refresh # "ok" => inv[p].writes = 0

C3_Witness ==
    \E p \in Procs : \E q \in Procs \ {p} :
        /\ inv[p].writes = 1 /\ inv[p].refresh = "ok"
        /\ inv[q].pc = "exit" /\ inv[q].refresh = "rejected"
        /\ inv[q].writes = 0
        /\ inv[p].tool = inv[q].tool

\* C4: whatever the invocations and their interleaving, the token file
\* differs from the record that was stored only in its token field.
C4_OnlyTokenChanges ==
    \A t \in Tools :
        IF stored[t] = NoFile THEN tokenFile[t] = NoFile
        ELSE /\ tokenFile[t] # NoFile
             /\ tokenFile[t].refresh_token = stored[t].refresh_token
             /\ tokenFile[t].token_uri = stored[t].token_uri
             /\ tokenFile[t].client_id = stored[t].client_id
             /\ tokenFile[t].client_secret = stored[t].client_secret

\* C4: two invocations read the same file, both refreshed, the one that
\* refreshed first wrote last
C4_Witness ==
    \E p \in Procs : \E q \in Procs \ {p} :
        /\ inv[p].tool = inv[q].tool
        /\ inv[p].writes = 1 /\ inv[q].writes = 1
        /\ inv[p].creds.token < inv[q].creds.token
        /\ tokenFile[inv[p].tool].token = inv[p].creds.token

\* C5: a rejected refresh ends the invocation with a failure: non-zero
\* exit, the error reported, no write of the token file and no API call.
C5_RefreshFailureIsFatal ==
    \A p \in Procs :
        inv[p].refresh = "rejected"
        => /\ inv[p].pc = "exit"
           /\ inv[p].exitCode = 1
           /\ inv[p].stderr = "RefreshError"
           /\ inv[p].writes = 0
           /\ inv[p].apiCalls = 0
           /\ inv[p].submitted = NotSubmitted

C5_Witness ==
    \E p \in Procs :
        /\ inv[p].refresh = "rejected"
        /\ inv[p].pc = "exit"
        /\ inv[p].refreshCalls = 1
        /\ tokenFile[inv[p].tool] = stored[inv[p].tool]

\* C6: every step of an invocation whose credentials are not expired
\* leaves the token file as it is, and the invocation has made no refresh
\* call and no write.
C6_FreshTokenNoRefreshNoWrite ==
    [][\A p \in Procs :
          (/\ inv'[p] # inv[p]
           /\ Loaded(inv'[p])
           /\ ~inv'[p].expired)
          => /\ tokenFile' = tokenFile
             /\ inv'[p].refreshCalls = 0
             /\ inv'[p].writes = 0]_vars

C6_Witness ==
    \E p \in Procs :
        /\ inv[p].pc = "exit"
        /\ inv[p].exitCode = 0
        /\ Loaded(inv[p])
        /\ ~inv[p].expired
        /\ inv[p].creds.refresh_token # "None"
        /\ inv[p].apiCalls > 0
        /\ tokenFile[inv[p].tool] = inv[p].token_data

\* the message has no direct body data, no text/plain part with data and
\* an empty snippet
NoContent(m) ==
    /\ ~(m.hasBody /\ m.data # <<>>)
    /\ \A k \in 1..Len(m.parts) :
          ~(m.parts[k].mimeType = "text/plain" /\ m.parts[k].data # <<>>)
    /\ m.snippet = <<>>

\* C7: read on a message with no direct body data, no text/plain part with
\* data and an empty snippet prints "No body content" and raises nothing.
C7_EmptyMessageFallback ==
    \A p \in Procs :
        (inv[p].msg.fetched /\ NoContent(inv[p].msg.message))
        => /\ inv[p].exitCode = 0
           /\ inv[p].display.shown
           /\ inv[p].display.text = NoBodyContent

C9_PayloadShape ==
    \A p \in Procs :
        inv[p].submitted.sent
        => \/ /\ IsDateTimeString(inv[p].start)
              /\ IsDateTimeString(inv[p].end)
              /\ inv[p].submitted.body.start
                     = [dateTime |-> WallClock(inv[p].start)]
              /\ inv[p].submitted.body.end
                     = [dateTime |-> WallClock(inv[p].end)]
           \/ /\ IsDateString(inv[p].start)
              /\ IsDateString(inv[p].end)
              /\ inv[p].submitted.body.start = [date |-> inv[p].start]
              /\ inv[p].submitted.body.end = [date |-> inv[p].end]

\* part k of the message is a text/plain part with data
PlainWithData(m, k) ==
    m.parts[k].mimeType = "text/plain" /\ m.parts[k].data # <<>>

\* C10: what read prints is the decoded direct body when the payload has
\* body data; otherwise the decoded data of the first text/plain part with
\* data; otherwise the snippet of the message.
C10_BodyPrecedence ==
    \A p \in Procs :
        inv[p].display.shown
        => LET m == inv[p].msg.message
               text == inv[p].display.text
           IN  IF m.hasBody /\ m.data # <<>>
               THEN text = Decode(m.data)
               ELSE IF \E k \in 1..Len(m.parts) : PlainWithData(m, k)
               THEN \E k \in 1..Len(m.parts) :
                       /\ PlainWithData(m, k)
                       /\ \A j \in 1..(k - 1) : ~PlainWithData(m, j)
                       /\ text = Decode(m.parts[k].data)
               ELSE m.hasSnippet => text = m.snippet

\* two text/plain parts with data after no direct data: the first is shown
C10_Witness ==
    \E p \in Procs :
        /\ inv[p].display.shown
        /\ inv[p].msg.message.hasBody
        /\ inv[p].msg.message.data = <<>>
        /\ Len(inv[p].msg.message.parts) = 2
        /\ inv[p].msg.message.parts[1].data = DataEacute
        /\ inv[p].msg.message.parts[2].data = DataHi
        /\ inv[p].msg.message.snippet = <<104, 105>>
        /\ inv[p].display.text = <<233>>

====
